---- MODULE Spec2Model ----
(***************************************************************************)
(* Model of the destru-frontend structure viewport (the InteractiveCanvas  *)
(* orbit-camera controller and the component that owns it) and of the      *)
(* pinia user store.                                                       *)
(*                                                                         *)
(* Numbers.  Angles are kept in hundredths of a radian, so that the        *)
(* source's "pixels / 100" is exact on integer pixel coordinates; Math.PI  *)
(* is 314 in that unit.  Distances (viewDist and friends) are IEEE doubles *)
(* in the source; they are modelled as exact extended rationals            *)
(* [n, d]: d > 0 is the finite value n/d in lowest terms, <<1,0>> and      *)
(* <<-1,0>> are +Infinity and -Infinity, <<0,0>> is NaN.  Rounding of      *)
(* doubles is not modelled.                                                *)
(***************************************************************************)
EXTENDS Integers, Sequences, FiniteSets, TLC

VARIABLES
    ctl,                \* every InteractiveCanvas instance constructed so far
    raf,                \* callbacks queued with requestAnimationFrame, oldest first
    frame,              \* callbacks of the running animation frame still to run
    drawn,              \* what the step that just ran drew through onRender, if anything
    fingers,            \* where the fingers on the canvas are, in the order of
                        \* evt.touches; followed in the runs of real touches only
    last,               \* the last event or callback that ran
    container,          \* template ref `container` (undefined before the mount, null
                        \* after the unmount) and the client size of its element
    canvas,             \* template ref `canvas` and the backing-store size of its element
    observing,          \* whether resizeObserver observes the container
    renderer,           \* `let renderer`: 0 is null, else an index of renderers
    renderers,          \* every StructureRenderer constructed so far
    interactiveCanvas,  \* `let interactiveCanvas`: 0 is null, else an index of ctl
    isReady,            \* resource store: isReady
    resources,          \* resource store: resources present
    structure,          \* props.structure, identified by its bounding size
    options,            \* props.options
    webgl,              \* whether canvas.getContext('webgl') yields a context
    flag,               \* user store: flag
    user,               \* user store: user
    calls               \* user store: every set(id) call made so far

camVars == <<ctl, raf, frame, drawn, fingers>>
viewVars == <<container, canvas, observing, renderer, renderers, interactiveCanvas,
              isReady, resources, structure, options, webgl>>
storeVars == <<flag, user, calls>>
vars == <<ctl, raf, frame, drawn, fingers, last, container, canvas, observing, renderer,
          renderers, interactiveCanvas, isReady, resources, structure, options,
          webgl, flag, user, calls>>

----------------------------------------------------------------------------
(* Bounds of the model. *)

MaxRaf == 2        \* callbacks waiting for the next animation frame
MaxCtl == 2        \* InteractiveCanvas instances constructed in one run
MaxCalls == 3      \* set(id) calls made in one run
MaxDen == 2        \* largest denominator of a distance
MaxNum == 18       \* largest numerator of a distance
MaxFingers == 3    \* fingers on the canvas at one time

(* Inputs. *)

PI == 314

\* Bounding sizes of structures: the empty structure, and one with diagonal 3.
Sizes == {<<0, 0, 0>>, <<1, 2, 2>>}
\* Pointer positions in pixels.  The three on one line are 1570 px apart, so
\* every finger separation is an integer.
Origin == <<0, 0>>
Near == <<942, 1256>>
Far == <<1884, 2512>>
Points == {Origin, <<314, 0>>, Near}
Buttons == {0, 2}
WheelDeltas == {-300, 300}
ThreeFingers == <<Origin, Near, Far>>
\* Touch lists of the rotation runs: every single finger, one pair, three fingers.
RotTouches == {<<>>, <<Origin, Near>>, ThreeFingers} \cup {<<p>> : p \in Points}
\* Touch lists of the zoom runs: one single finger, pairs 0, 1570 and 3140 px apart.
ZoomTouches ==
    {<<>>, <<Origin>>, ThreeFingers} \cup {<<Origin, q>> : q \in {Origin, Near, Far}}
ContainerSizes == {<<800, 600>>, <<400, 300>>}
\* Real touches: each finger is at one of two points.
TouchPoints == {Origin, Near}
FingerLists == UNION {[1..n -> TouchPoints] : n \in 0..MaxFingers}

----------------------------------------------------------------------------
(* JavaScript numbers. *)

Abs(i) == IF i < 0 THEN -i ELSE i

Sign(i) == IF i < 0 THEN -1 ELSE IF i > 0 THEN 1 ELSE 0

RECURSIVE GCD(_, _)
GCD(a, b) == IF b = 0 THEN a ELSE GCD(b, a % b)

RECURSIVE Root(_, _, _)
Root(n, lo, hi) ==
    IF lo >= hi THEN lo
    ELSE LET mid == (lo + hi + 1) \div 2
         IN  IF mid * mid <= n THEN Root(n, mid, hi) ELSE Root(n, lo, mid - 1)

\* Math.sqrt on the perfect squares the inputs produce (46340 is the largest root
\* of a 32-bit integer).
Sqrt(n) == Root(n, 0, IF n < 46340 THEN n ELSE 46340)

\* Math.hypot(dx, dy)
Hypot(dx, dy) == Sqrt(dx * dx + dy * dy)

NaN == [n |-> 0, d |-> 0]
Fin(n, d) ==
    LET g == GCD(Abs(n), d)
    IN  IF g = 0 THEN NaN ELSE [n |-> n \div g, d |-> d \div g]
Whole(i) == [n |-> i, d |-> 1]
IsNaN(a) == a.n = 0 /\ a.d = 0
IsFinite(a) == a.d > 0

\* a < b on numbers that are not NaN
NumLt(a, b) ==
    IF a.d = 0 /\ b.d = 0 THEN a.n < b.n
    ELSE IF a.d = 0 THEN a.n < 0
    ELSE IF b.d = 0 THEN b.n > 0
    ELSE a.n * b.d < b.n * a.d

\* a + b, b finite
NumAdd(a, b) ==
    IF a.d = 0 THEN a ELSE Fin(a.n * b.d + b.n * a.d, a.d * b.d)

\* a / b, b >= +0 and not NaN
NumDiv(a, b) ==
    IF IsNaN(a) THEN NaN
    ELSE IF b.d = 0 THEN (IF a.d = 0 THEN NaN ELSE Whole(0))
    ELSE IF b.n = 0 THEN (IF a.n = 0 THEN NaN ELSE [n |-> Sign(a.n), d |-> 0])
    ELSE IF a.d = 0 THEN a
    ELSE Fin(a.n * b.d, a.d * b.n)

\* Math.max(a, b)
NumMax(a, b) ==
    IF IsNaN(a) \/ IsNaN(b) THEN NaN ELSE IF NumLt(a, b) THEN b ELSE a

\* Math.min(a, b)
NumMin(a, b) ==
    IF IsNaN(a) \/ IsNaN(b) THEN NaN ELSE IF NumLt(b, a) THEN b ELSE a

\* The distances the model follows: the special values, and the fractions within
\* the bounds.
Representable(a) == a.d = 0 \/ (a.d <= MaxDen /\ Abs(a.n) <= MaxNum)

\* the % operator on integers: the result takes the sign of the dividend
JsRem(a, m) == Sign(a) * (Abs(a) % m)

----------------------------------------------------------------------------
(* class InteractiveCanvas *)

Null == <<>>

Listeners ==
    {"canvas:mousedown", "document:mousemove", "document:mouseup", "canvas:wheel",
     "canvas:touchstart", "canvas:touchmove", "canvas:touchend"}

\* new InteractiveCanvas(canvas, onRender, size)
NewInteractiveCanvas(size) ==
    LET viewDist == Whole(Sqrt(size[1] * size[1] + size[2] * size[2] + size[3] * size[3]))
    IN  [xRot |-> 50, yRot |-> 50,
         dragPos |-> Null, pinchStartDist |-> Null, pinchStartViewDist |-> Null,
         size |-> size,
         viewDist |-> viewDist,
         maxViewDist |-> Fin(viewDist.n * viewDist.n, 1),
         listeners |-> Listeners]

\* Each handler yields the instance after the call and whether it called redraw().
Quiet(self) == [self |-> self, redraw |-> FALSE]
Redrawn(self) == [self |-> self, redraw |-> TRUE]

handleMouseDown(self, evt) ==
    IF evt.button = 0
    THEN Quiet([self EXCEPT !.dragPos = <<evt.clientX, evt.clientY>>])
    ELSE Quiet(self)

\* handleMouseMove without line 57: the anchor stays where the drag began
handleMouseMoveStaleAnchor(self, evt) ==
    IF self.dragPos # Null
    THEN Redrawn([self EXCEPT
                    !.yRot = @ + (evt.clientX - self.dragPos[1]),
                    !.xRot = @ + (evt.clientY - self.dragPos[2])])
    ELSE Quiet(self)

handleMouseMove(self, evt) ==
    IF self.dragPos # Null
    THEN Redrawn([self EXCEPT
                    !.yRot = @ + (evt.clientX - self.dragPos[1]),
                    !.xRot = @ + (evt.clientY - self.dragPos[2]),
                    !.dragPos = <<evt.clientX, evt.clientY>>])
    ELSE Quiet(self)

handleMouseUp(self, evt) == Quiet([self EXCEPT !.dragPos = Null])

handleWheel(self, evt) ==
    Redrawn([self EXCEPT !.viewDist = NumAdd(@, Fin(evt.deltaY, 100))])

Separation(touches) ==
    Hypot(touches[2][1] - touches[1][1], touches[2][2] - touches[1][2])

handleTouchStart(self, evt) ==
    IF Len(evt.touches) = 1
    THEN Quiet([self EXCEPT !.dragPos = evt.touches[1], !.pinchStartDist = Null])
    ELSE IF Len(evt.touches) = 2
    THEN Quiet([self EXCEPT
                  !.pinchStartDist = <<Separation(evt.touches)>>,
                  !.pinchStartViewDist = <<self.viewDist>>,
                  !.dragPos = Null])
    ELSE Quiet(self)

\* handleTouchMove scaling the current distance instead of the captured one
handleTouchMoveIncremental(self, evt) ==
    IF Len(evt.touches) = 1 /\ self.dragPos # Null
    THEN Redrawn([self EXCEPT
                    !.yRot = @ + (evt.touches[1][1] - self.dragPos[1]),
                    !.xRot = @ + (evt.touches[1][2] - self.dragPos[2]),
                    !.dragPos = evt.touches[1]])
    ELSE IF /\ Len(evt.touches) = 2
            /\ self.pinchStartDist # Null
            /\ self.pinchStartDist # <<0>>
            /\ self.pinchStartViewDist # Null
    THEN LET currentDist == Separation(evt.touches)
             scale == Fin(currentDist, self.pinchStartDist[1])
         IN  Redrawn([self EXCEPT !.viewDist = NumDiv(self.viewDist, scale)])
    ELSE Quiet(self)

handleTouchMove(self, evt) ==
    IF Len(evt.touches) = 1 /\ self.dragPos # Null
    THEN Redrawn([self EXCEPT
                    !.yRot = @ + (evt.touches[1][1] - self.dragPos[1]),
                    !.xRot = @ + (evt.touches[1][2] - self.dragPos[2]),
                    !.dragPos = evt.touches[1]])
    ELSE IF /\ Len(evt.touches) = 2
            /\ self.pinchStartDist # Null
            /\ self.pinchStartDist # <<0>>
            /\ self.pinchStartViewDist # Null
    THEN LET currentDist == Separation(evt.touches)
             scale == Fin(currentDist, self.pinchStartDist[1])
         IN  Redrawn([self EXCEPT
                        !.viewDist = NumDiv(self.pinchStartViewDist[1], scale)])
    ELSE Quiet(self)

\* handleTouchEnd without lines 110-111: the anchor is not moved to the finger
\* that remains
handleTouchEndWithoutAnchor(self, evt) ==
    IF Len(evt.touches) = 0
    THEN Quiet([self EXCEPT !.dragPos = Null, !.pinchStartDist = Null,
                            !.pinchStartViewDist = Null])
    ELSE IF Len(evt.touches) = 1
    THEN Quiet([self EXCEPT !.pinchStartDist = Null, !.pinchStartViewDist = Null])
    ELSE Quiet(self)

handleTouchEnd(self, evt) ==
    IF Len(evt.touches) = 0
    THEN Quiet([self EXCEPT !.dragPos = Null, !.pinchStartDist = Null,
                            !.pinchStartViewDist = Null])
    ELSE IF Len(evt.touches) = 1
    THEN Quiet([self EXCEPT !.dragPos = evt.touches[1], !.pinchStartDist = Null,
                            !.pinchStartViewDist = Null])
    ELSE Quiet(self)

\* destroy removing every listener from the canvas, the document's staying
destroyCanvasOnly(self) ==
    [self EXCEPT !.listeners = {"document:mousemove", "document:mouseup"} \cap @]

destroy(self) == [self EXCEPT !.listeners = {}]

\* An instance that has no listener attached, that the component no longer
\* refers to and that no queued callback refers to is garbage: nothing can reach
\* it again.  The model keeps one blank instance for all of them.
Collected ==
    [xRot |-> 0, yRot |-> 0, dragPos |-> Null, pinchStartDist |-> Null,
     pinchStartViewDist |-> Null, size |-> <<0, 0, 0>>, viewDist |-> Whole(0),
     maxViewDist |-> Whole(0), listeners |-> {}]

Sweep(instances, referenced, queue) ==
    [c \in DOMAIN instances |->
        IF /\ instances[c].listeners = {}
           /\ c # referenced
           /\ \A i \in 1..Len(queue) : queue[i].c # c
        THEN Collected
        ELSE instances[c]]

\* renderImmediately without line 149: the yaw is never wrapped
renderImmediatelyUnwrapped(self) ==
    [self EXCEPT
       !.xRot = IF @ > PI \div 2 THEN PI \div 2
                ELSE IF @ < -(PI \div 2) THEN -(PI \div 2) ELSE @,
       !.viewDist = NumMin(NumMax(@, Whole(1)), self.maxViewDist)]

\* renderImmediately wrapping the yaw at PI, half a turn
renderImmediatelyHalfTurn(self) ==
    [self EXCEPT
       !.yRot = JsRem(@, PI),
       !.xRot = IF @ > PI \div 2 THEN PI \div 2
                ELSE IF @ < -(PI \div 2) THEN -(PI \div 2) ELSE @,
       !.viewDist = NumMin(NumMax(@, Whole(1)), self.maxViewDist)]

renderImmediately(self) ==
    [self EXCEPT
       !.yRot = JsRem(@, 2 * PI),
       !.xRot = IF @ > PI \div 2 THEN PI \div 2
                ELSE IF @ < -(PI \div 2) THEN -(PI \div 2) ELSE @,
       !.viewDist = NumMin(NumMax(@, Whole(1)), self.maxViewDist)]

----------------------------------------------------------------------------
(* The event loop: DOM event dispatch and requestAnimationFrame. *)

Ids == 1..Len(ctl)

\* no call of onRender
NoDraw == [c |-> 0, renderer |-> 0, w |-> 0, h |-> 0,
           structure |-> FALSE, grid |-> FALSE, invisibleBlocks |-> FALSE]

Event(op, c, a) == [op |-> op, c |-> c, a |-> a]

RenderCallback(c) == [f |-> "render", c |-> c]
RedrawCallback == [f |-> "redraw", c |-> 0]

\* public redraw(): requestAnimationFrame(() => this.renderImmediately())
Scheduled(S) ==
    LET all == [c \in Ids |-> RenderCallback(c)]
    IN  SelectSeq(all, LAMBDA cb : cb.c \in S)

\* The browser calls, in order of construction, the handler of every instance that
\* has a listener for the event attached; handled[c] is what the handler of
\* instance c does with the event.
Dispatch(type, handled) ==
    LET targets == {c \in Ids : type \in ctl[c].listeners}
    IN  /\ frame = 0
        /\ Len(raf) < MaxRaf
        /\ ctl' = [c \in Ids |-> IF c \in targets THEN handled[c].self ELSE ctl[c]]
        /\ \A c \in Ids : Representable(ctl'[c].viewDist)
        /\ raf' = raf \o Scheduled({c \in targets : handled[c].redraw})
        /\ drawn' = NoDraw
        /\ UNCHANGED frame

Flat(touches) ==
    IF Len(touches) = 0 THEN <<>>
    ELSE IF Len(touches) = 1 THEN touches[1]
    ELSE IF Len(touches) = 2 THEN touches[1] \o touches[2]
    ELSE touches[1] \o touches[2] \o touches[3]

MouseDown(x, y, button) ==
    LET evt == [clientX |-> x, clientY |-> y, button |-> button]
        handled == [c \in Ids |-> handleMouseDown(ctl[c], evt)]
    IN  /\ Dispatch("canvas:mousedown", handled)
        /\ last' = Event("mousedown", 0, <<x, y, button>>)

MouseMove(x, y) ==
    LET evt == [clientX |-> x, clientY |-> y]
        handled == [c \in Ids |-> handleMouseMove(ctl[c], evt)]
    IN  /\ Dispatch("document:mousemove", handled)
        /\ last' = Event("mousemove", 0, <<x, y>>)

MouseUp ==
    LET handled == [c \in Ids |-> handleMouseUp(ctl[c], [button |-> 0])]
    IN  /\ Dispatch("document:mouseup", handled)
        /\ last' = Event("mouseup", 0, <<>>)

Wheel(deltaY) ==
    LET handled == [c \in Ids |-> handleWheel(ctl[c], [deltaY |-> deltaY])]
    IN  /\ Dispatch("canvas:wheel", handled)
        /\ last' = Event("wheel", 0, <<deltaY>>)

TouchStart(touches) ==
    LET handled == [c \in Ids |-> handleTouchStart(ctl[c], [touches |-> touches])]
    IN  /\ Len(touches) > 0
        /\ Dispatch("canvas:touchstart", handled)
        /\ last' = Event("touchstart", 0, Flat(touches))

TouchMove(touches) ==
    LET handled == [c \in Ids |-> handleTouchMove(ctl[c], [touches |-> touches])]
    IN  /\ Len(touches) > 0
        /\ Dispatch("canvas:touchmove", handled)
        /\ last' = Event("touchmove", 0, Flat(touches))

TouchEnd(touches) ==
    LET handled == [c \in Ids |-> handleTouchEnd(ctl[c], [touches |-> touches])]
    IN  /\ Len(touches) < 3
        /\ Dispatch("canvas:touchend", handled)
        /\ last' = Event("touchend", 0, Flat(touches))

\* Real touches: the browser keeps the list of the fingers on the canvas and hands
\* it to every touch event as evt.touches.
\* Fingers are put down: touchstart.
FingerDown(new) ==
    /\ Len(new) > 0
    /\ Len(fingers) + Len(new) <= MaxFingers
    /\ fingers' = fingers \o new
    /\ TouchStart(fingers \o new)

\* Fingers move without any being lifted or put down: touchmove.
FingerMove(to) ==
    /\ Len(to) = Len(fingers)
    /\ to # fingers
    /\ fingers' = to
    /\ TouchMove(to)

\* The fingers at the places `lifted` of the list are lifted: touchend.
FingerUp(lifted) ==
    /\ lifted # {}
    /\ lifted \subseteq 1..Len(fingers)
    /\ LET places == [i \in 1..Len(fingers) |-> i]
           left == SelectSeq(places, LAMBDA i : i \notin lifted)
           remaining == [j \in 1..Len(left) |-> fingers[left[j]]]
       IN  /\ fingers' = remaining
           /\ TouchEnd(remaining)

\* The render callback handed to the constructor by the component's redraw, called
\* by instance c: what it draws with the `renderer` of the moment.  When the
\* template ref is null, `canvas.value!.width` throws after gl.clear and nothing
\* is drawn.
onRender(c) ==
    IF canvas.el = "element"
    THEN [c |-> c, renderer |-> renderer, w |-> canvas.w, h |-> canvas.h,
          structure |-> TRUE,
          grid |-> options.grid, invisibleBlocks |-> options.invisibleBlocks]
    ELSE [c |-> c, renderer |-> renderer, w |-> 0, h |-> 0,
          structure |-> FALSE, grid |-> FALSE, invisibleBlocks |-> FALSE]

\* The browser starts an animation frame: the callbacks queued so far run in it,
\* those queued while it runs wait for the next one.
BeginFrame ==
    /\ frame = 0
    /\ Len(raf) > 0
    /\ frame' = Len(raf)
    /\ last' = Event("frame", 0, <<>>)
    /\ drawn' = NoDraw
    /\ UNCHANGED <<ctl, raf>>

\* () => this.renderImmediately()
RunRender ==
    /\ frame > 0
    /\ Head(raf).f = "render"
    /\ LET c == Head(raf).c
       IN  /\ ctl' = Sweep([ctl EXCEPT ![c] = renderImmediately(@)],
                            interactiveCanvas, Tail(raf))
           /\ drawn' = onRender(c)
           /\ last' = Event("render", c, <<>>)
    /\ raf' = Tail(raf)
    /\ frame' = frame - 1

\* a caller of the public methods of one instance
CallRedraw(c) ==
    /\ frame = 0
    /\ Len(raf) < MaxRaf
    /\ raf' = Append(raf, RenderCallback(c))
    /\ last' = Event("redraw", c, <<>>)
    /\ drawn' = NoDraw
    /\ UNCHANGED <<ctl, frame>>

CallDestroy(c) ==
    /\ frame = 0
    /\ ctl' = [ctl EXCEPT ![c] = destroy(@)]
    /\ last' = Event("destroy", c, <<>>)
    /\ drawn' = NoDraw
    /\ UNCHANGED <<raf, frame>>

\* An animation frame in the run of instance c, when two runs of one instance
\* are followed side by side: every callback the instance has queued runs.
FrameOf(c) ==
    /\ \E i \in 1..Len(raf) : raf[i].c = c
    /\ ctl' = [ctl EXCEPT ![c] = renderImmediately(@)]
    /\ raf' = SelectSeq(raf, LAMBDA cb : cb.c # c)
    /\ drawn' = onRender(c)
    /\ last' = Event("render", c, <<>>)
    /\ UNCHANGED frame

----------------------------------------------------------------------------
(* The viewport component. *)

\* redraw without lines 175-178: the previous instance keeps its listeners
redrawLeaky(queue) ==
    IF ~isReady \/ ~resources \/ canvas.el # "element" \/ ~webgl
    THEN /\ raf' = queue
         /\ UNCHANGED <<ctl, renderer, renderers, interactiveCanvas>>
    ELSE LET new == Len(ctl) + 1
         IN  /\ renderers' = Append(renderers, structure)
             /\ renderer' = Len(renderers) + 1
             /\ ctl' = Append(ctl, NewInteractiveCanvas(structure))
             /\ interactiveCanvas' = new
             /\ raf' = Append(queue, RenderCallback(new))

\* redraw discarding the instance and the renderer (lines 175-181) before its
\* guards (lines 170-173)
redrawDiscardingFirst(queue) ==
    LET old == interactiveCanvas
        destroyed == IF old # 0 THEN [ctl EXCEPT ![old] = destroy(@)] ELSE ctl
    IN  IF ~isReady \/ ~resources \/ canvas.el # "element" \/ ~webgl
        THEN /\ raf' = queue
             /\ ctl' = destroyed
             /\ interactiveCanvas' = 0
             /\ renderer' = 0
             /\ UNCHANGED renderers
        ELSE LET size == structure
                 new == Len(ctl) + 1
             IN  /\ renderers' = Append(renderers, structure)
                 /\ renderer' = Len(renderers) + 1
                 /\ ctl' = Sweep(Append(destroyed, NewInteractiveCanvas(size)), new, queue)
                 /\ interactiveCanvas' = new
                 /\ raf' = Append(queue, RenderCallback(new))

\* redraw using the canvas element it was first given, whatever the template ref
\* has become
redrawWithoutCanvasCheck(queue) ==
    IF ~isReady \/ ~resources \/ canvas.el = "undefined" \/ ~webgl
    THEN /\ raf' = queue
         /\ UNCHANGED <<ctl, renderer, renderers, interactiveCanvas>>
    ELSE LET old == interactiveCanvas
             destroyed == IF old # 0 THEN [ctl EXCEPT ![old] = destroy(@)] ELSE ctl
             size == structure
             new == Len(ctl) + 1
         IN  /\ renderers' = Append(renderers, structure)
             /\ renderer' = Len(renderers) + 1
             /\ ctl' = Sweep(Append(destroyed, NewInteractiveCanvas(size)), new, queue)
             /\ interactiveCanvas' = new
             /\ raf' = Append(queue, RenderCallback(new))

\* redraw without line 204: the new instance is never asked to render
redrawWithoutRender(queue) ==
    IF ~isReady \/ ~resources \/ canvas.el # "element" \/ ~webgl
    THEN /\ raf' = queue
         /\ UNCHANGED <<ctl, renderer, renderers, interactiveCanvas>>
    ELSE LET old == interactiveCanvas
             destroyed == IF old # 0 THEN [ctl EXCEPT ![old] = destroy(@)] ELSE ctl
             size == structure
             new == Len(ctl) + 1
         IN  /\ renderers' = Append(renderers, structure)
             /\ renderer' = Len(renderers) + 1
             /\ ctl' = Sweep(Append(destroyed, NewInteractiveCanvas(size)), new, queue)
             /\ interactiveCanvas' = new
             /\ raf' = queue

\* const redraw = () => { ... }, run with `queue` the callbacks still waiting
redraw(queue) ==
    IF ~isReady \/ ~resources \/ canvas.el # "element" \/ ~webgl
    THEN /\ raf' = queue
         /\ UNCHANGED <<ctl, renderer, renderers, interactiveCanvas>>
    ELSE LET old == interactiveCanvas
             destroyed == IF old # 0 THEN [ctl EXCEPT ![old] = destroy(@)] ELSE ctl
             size == structure
             new == Len(ctl) + 1
         IN  /\ renderers' = Append(renderers, structure)
             /\ renderer' = Len(renderers) + 1
             /\ ctl' = Sweep(Append(destroyed, NewInteractiveCanvas(size)), new, queue)
             /\ interactiveCanvas' = new
             /\ raf' = Append(queue, RenderCallback(new))

\* requestAnimationFrame(redraw), when the frame runs it
RunRedraw ==
    /\ frame > 0
    /\ Head(raf).f = "redraw"
    /\ redraw(Tail(raf))
    /\ frame' = frame - 1
    /\ last' = Event("viewport.redraw", 0, <<>>)
    /\ drawn' = NoDraw
    /\ UNCHANGED <<container, canvas, observing, isReady, resources,
                   structure, options, webgl>>

\* The component is mounted: the template refs are bound, then onMounted runs.
Mount ==
    /\ container.el = "undefined"
    /\ container' = [container EXCEPT !.el = "element"]
    /\ canvas' = [canvas EXCEPT !.el = "element"]
    /\ observing' = TRUE
    /\ last' = Event("mount", 0, <<>>)
    /\ drawn' = NoDraw
    /\ UNCHANGED <<ctl, raf, frame, renderer, renderers, interactiveCanvas, isReady,
                   resources, structure, options, webgl>>

Pending == Len(SelectSeq(raf, LAMBDA cb : cb.f = "redraw"))

\* The observed container is laid out at a new size and the ResizeObserver
\* callback runs.
Resize(w, h) ==
    /\ frame = 0
    /\ observing
    /\ <<container.w, container.h>> # <<w, h>>
    /\ Len(raf) < MaxRaf
    /\ Len(ctl) + Pending < MaxCtl
    /\ container' = [container EXCEPT !.w = w, !.h = h]
    /\ IF container.el # "element" \/ canvas.el # "element"
       THEN UNCHANGED <<canvas, raf>>
       ELSE /\ canvas' = [canvas EXCEPT !.w = w, !.h = h]
            /\ raf' = Append(raf, RedrawCallback)
    /\ last' = Event("resize", 0, <<>>)
    /\ drawn' = NoDraw
    /\ UNCHANGED <<ctl, frame, observing, renderer, renderers,
                   interactiveCanvas, isReady, resources, structure, options, webgl>>

\* The component is unmounted: the template refs are cleared, then onUnmounted
\* runs.
Unmount ==
    /\ frame = 0
    /\ container.el = "element"
    /\ container' = [container EXCEPT !.el = "null"]
    /\ canvas' = [canvas EXCEPT !.el = "null"]
    /\ observing' = FALSE
    /\ ctl' = IF interactiveCanvas # 0
              THEN [ctl EXCEPT ![interactiveCanvas] = destroy(@)]
              ELSE ctl
    /\ last' = Event("unmount", 0, <<>>)
    /\ drawn' = NoDraw
    /\ UNCHANGED <<raf, frame, renderer, renderers, interactiveCanvas,
                   isReady, resources, structure, options, webgl>>

\* A prop of options is toggled and the watcher runs.  An unmounted component
\* receives no props and its watchers are stopped.
ToggleOption(name) ==
    /\ frame = 0
    /\ container.el # "null"
    /\ Len(raf) < MaxRaf
    /\ options' = [options EXCEPT ![name] = ~@]
    /\ raf' = IF interactiveCanvas # 0
              THEN Append(raf, RenderCallback(interactiveCanvas))
              ELSE raf
    /\ last' = Event("options", 0, <<>>)
    /\ drawn' = NoDraw
    /\ UNCHANGED <<ctl, frame, container, canvas, observing, renderer,
                   renderers, interactiveCanvas, isReady, resources, structure, webgl>>

\* The parent passes another structure.
SwapStructure(size) ==
    /\ frame = 0
    /\ container.el # "null"
    /\ size # structure
    /\ structure' = size
    /\ last' = Event("structure", 0, <<>>)
    /\ drawn' = NoDraw
    /\ UNCHANGED <<ctl, raf, frame, container, canvas, observing, renderer, renderers,
                   interactiveCanvas, isReady, resources, options, webgl>>

\* The resource store finishes loading.
ResourcesReady ==
    /\ frame = 0
    /\ ~isReady
    /\ isReady' = TRUE
    /\ resources' = TRUE
    /\ last' = Event("resources", 0, <<>>)
    /\ drawn' = NoDraw
    /\ UNCHANGED <<ctl, raf, frame, container, canvas, observing, renderer, renderers,
                   interactiveCanvas, structure, options, webgl>>

----------------------------------------------------------------------------
(* The user store. *)

Names == {"steve", "alex"}

Truthy(id) == id.given /\ id.s # ""

\* set(id) whose else branch forgets line 25
setKeepsUser(id) ==
    IF Truthy(id)
    THEN /\ Len(calls) < MaxCalls
         /\ flag' = TRUE
         /\ calls' = Append(calls, [id |-> id.s, pc |-> "getUserName", req |-> id.s,
                                    name |-> "", user |-> Null])
         /\ UNCHANGED user
    ELSE /\ flag' = FALSE
         /\ UNCHANGED <<user, calls>>

\* set(id), up to its first await
set(id) ==
    IF Truthy(id)
    THEN /\ Len(calls) < MaxCalls
         /\ flag' = TRUE
         /\ calls' = Append(calls, [id |-> id.s, pc |-> "getUserName", req |-> id.s,
                                    name |-> "", user |-> Null])
         /\ UNCHANGED user
    ELSE /\ flag' = FALSE
         /\ user' = Null
         /\ UNCHANGED calls

\* the continuation after getUserName asking getUser for the id, not the name
afterGetUserNameById(k, name) ==
    /\ calls' = [calls EXCEPT ![k] = [@ EXCEPT !.pc = "getUser", !.req = @,
                                               !.name = name]]
    /\ UNCHANGED <<flag, user>>

\* set(id), from `await api.getUserName(id)` to the next await
afterGetUserName(k, name) ==
    /\ calls' = [calls EXCEPT ![k] = [@ EXCEPT !.pc = "getUser", !.req = name,
                                               !.name = name]]
    /\ UNCHANGED <<flag, user>>

\* the continuation after getUser dropping the answer of a superseded call
afterGetUserLatestOnly(k, u) ==
    /\ user' = IF k = Len(calls) THEN u ELSE user
    /\ calls' = [calls EXCEPT ![k] = [@ EXCEPT !.pc = "done", !.req = "", !.user = u]]
    /\ UNCHANGED flag

\* set(id), from `await api.getUser(name)` to its end
afterGetUser(k, u) ==
    /\ user' = u
    /\ calls' = [calls EXCEPT ![k] = [@ EXCEPT !.pc = "done", !.req = "", !.user = u]]
    /\ UNCHANGED flag

\* set(id), when the awaited request fails: the rejection leaves the call
afterFailure(k) ==
    /\ calls' = [calls EXCEPT ![k] = [@ EXCEPT !.pc = "failed", !.req = ""]]
    /\ UNCHANGED <<flag, user>>

Set(id) ==
    /\ set(id)
    /\ last' = Event("set", IF Truthy(id) THEN Len(calls) + 1 ELSE 0, <<id.s>>)

\* api.getUserName answers a call with some name.
GetUserNameResolves(k, name) ==
    /\ calls[k].pc = "getUserName"
    /\ afterGetUserName(k, name)
    /\ last' = Event("getUserName.resolve", k, <<name>>)

\* api.getUser answers a call with the user of the name asked for.
GetUserResolves(k) ==
    /\ calls[k].pc = "getUser"
    /\ afterGetUser(k, <<calls[k].req>>)
    /\ last' = Event("getUser.resolve", k, <<calls[k].req>>)

RequestFails(k) ==
    /\ calls[k].pc \in {"getUserName", "getUser"}
    /\ afterFailure(k)
    /\ last' = Event("reject", k, <<calls[k].pc>>)

SetArgs ==
    {[given |-> FALSE, s |-> ""], [given |-> TRUE, s |-> ""],
     [given |-> TRUE, s |-> "a"], [given |-> TRUE, s |-> "b"]}

----------------------------------------------------------------------------
(* Specifications. *)

InitStore ==
    /\ flag = FALSE
    /\ user = Null
    /\ calls = <<>>

\* The component after setup, before it is mounted.
InitView ==
    /\ ctl = <<>>
    /\ raf = <<>>
    /\ frame = 0
    /\ drawn = NoDraw
    /\ fingers = <<>>
    /\ last = Event("setup", 0, <<>>)
    /\ container = [el |-> "undefined", w |-> 0, h |-> 0]
    /\ canvas = [el |-> "undefined", w |-> 300, h |-> 150]
    /\ observing = FALSE
    /\ renderer = 0
    /\ renderers = <<>>
    /\ interactiveCanvas = 0
    /\ isReady \in BOOLEAN
    /\ resources = isReady
    /\ structure \in Sizes
    /\ options = [grid |-> FALSE, invisibleBlocks |-> FALSE]
    /\ webgl \in BOOLEAN
    /\ InitStore

\* One InteractiveCanvas as the component's redraw leaves it: built for a
\* structure of some size, with its first render queued.
InitCam ==
    /\ \E size \in Sizes :
          /\ ctl = <<NewInteractiveCanvas(size)>>
          /\ structure = size
          /\ renderers = <<size>>
    /\ raf = <<RenderCallback(1)>>
    /\ frame = 0
    /\ drawn = NoDraw
    /\ fingers = <<>>
    /\ last = Event("viewport.redraw", 0, <<>>)
    /\ container = [el |-> "element", w |-> 800, h |-> 600]
    /\ canvas = [el |-> "element", w |-> 800, h |-> 600]
    /\ observing = TRUE
    /\ renderer = 1
    /\ interactiveCanvas = 1
    /\ isReady = TRUE
    /\ resources = TRUE
    /\ options = [grid |-> FALSE, invisibleBlocks |-> FALSE]
    /\ webgl = TRUE
    /\ InitStore

CamOnly == UNCHANGED viewVars /\ UNCHANGED storeVars /\ UNCHANGED fingers

\* Mouse drags and touches, interleaved with animation frames.
NextRot ==
    \/ \E p \in Points, b \in Buttons : MouseDown(p[1], p[2], b) /\ CamOnly
    \/ \E p \in Points : MouseMove(p[1], p[2]) /\ CamOnly
    \/ MouseUp /\ CamOnly
    \/ \E touches \in RotTouches : TouchStart(touches) /\ CamOnly
    \/ \E touches \in RotTouches : TouchMove(touches) /\ CamOnly
    \/ \E touches \in RotTouches : TouchEnd(touches) /\ CamOnly
    \/ BeginFrame /\ CamOnly
    \/ RunRender /\ CamOnly

SpecRot == InitCam /\ [][NextRot]_vars

\* Wheel steps and touches, interleaved with animation frames.
NextZoom ==
    \/ \E deltaY \in WheelDeltas : Wheel(deltaY) /\ CamOnly
    \/ \E touches \in ZoomTouches : TouchStart(touches) /\ CamOnly
    \/ \E touches \in ZoomTouches : TouchMove(touches) /\ CamOnly
    \/ \E touches \in ZoomTouches : TouchEnd(touches) /\ CamOnly
    \/ BeginFrame /\ CamOnly
    \/ RunRender /\ CamOnly

SpecZoom == InitCam /\ [][NextZoom]_vars

\* Every kind of event: a drag from Origin to Near with either button, a wheel
\* step, a finger, and a pinch that starts 1570 px wide and may double.
Input ==
    \/ \E b \in Buttons : MouseDown(Origin[1], Origin[2], b)
    \/ MouseMove(Near[1], Near[2])
    \/ MouseUp
    \/ Wheel(300)
    \/ \E touches \in {<<Origin>>, <<Origin, Near>>} : TouchStart(touches)
    \/ \E touches \in {<<Near>>, <<Origin, Far>>} : TouchMove(touches)
    \/ \E touches \in {<<>>, <<Near>>} : TouchEnd(touches)

\* One InteractiveCanvas under every kind of event, animation frames and calls of
\* its public methods.
NextCam ==
    \/ Input /\ CamOnly
    \/ BeginFrame /\ CamOnly
    \/ RunRender /\ CamOnly
    \/ CallRedraw(1) /\ CamOnly
    \/ CallDestroy(1) /\ CamOnly

SpecCam == InitCam /\ [][NextCam]_vars

\* The component from setup to unmount.
\* Every kind of event, one of each: a drag from Origin to Near by mouse or by
\* finger, and a wheel step.
ViewInput ==
    \/ MouseDown(Origin[1], Origin[2], 0)
    \/ MouseMove(Near[1], Near[2])
    \/ MouseUp
    \/ Wheel(900)
    \/ TouchStart(<<Origin>>)
    \/ TouchMove(<<Near>>)
    \/ TouchEnd(<<>>)

NextView ==
    \/ Mount /\ UNCHANGED <<storeVars, fingers>>
    \/ \E s \in ContainerSizes : Resize(s[1], s[2]) /\ UNCHANGED <<storeVars, fingers>>
    \/ Unmount /\ UNCHANGED <<storeVars, fingers>>
    \/ \E name \in {"grid", "invisibleBlocks"} : ToggleOption(name) /\ UNCHANGED <<storeVars, fingers>>
    \/ \E size \in Sizes : SwapStructure(size) /\ UNCHANGED <<storeVars, fingers>>
    \/ ResourcesReady /\ UNCHANGED <<storeVars, fingers>>
    \/ ViewInput /\ UNCHANGED viewVars /\ UNCHANGED <<storeVars, fingers>>
    \/ BeginFrame /\ UNCHANGED viewVars /\ UNCHANGED <<storeVars, fingers>>
    \/ RunRender /\ UNCHANGED viewVars /\ UNCHANGED <<storeVars, fingers>>
    \/ RunRedraw /\ UNCHANGED <<storeVars, fingers>>

SpecView == InitView /\ [][NextView]_vars

\* One InteractiveCanvas under real touches: fingers are put down, moved and
\* lifted, one or several at a time, between animation frames.
NextTouch ==
    \/ \E new \in FingerLists :
          FingerDown(new) /\ UNCHANGED viewVars /\ UNCHANGED storeVars
    \/ \E to \in FingerLists :
          FingerMove(to) /\ UNCHANGED viewVars /\ UNCHANGED storeVars
    \/ \E lifted \in SUBSET (1..MaxFingers) :
          FingerUp(lifted) /\ UNCHANGED viewVars /\ UNCHANGED storeVars
    \/ BeginFrame /\ CamOnly
    \/ RunRender /\ CamOnly

SpecTouch == InitCam /\ [][NextTouch]_vars

\* Two runs of one InteractiveCanvas side by side: instances 1 and 2 are built
\* alike and receive the same events in the same order, and each has its own
\* animation frames.
InitPair ==
    /\ \E size \in Sizes :
          /\ ctl = <<NewInteractiveCanvas(size), NewInteractiveCanvas(size)>>
          /\ structure = size
          /\ renderers = <<size>>
    /\ raf = <<RenderCallback(1), RenderCallback(2)>>
    /\ frame = 0
    /\ drawn = NoDraw
    /\ fingers = <<>>
    /\ last = Event("viewport.redraw", 0, <<>>)
    /\ container = [el |-> "element", w |-> 800, h |-> 600]
    /\ canvas = [el |-> "element", w |-> 800, h |-> 600]
    /\ observing = TRUE
    /\ renderer = 1
    /\ interactiveCanvas = 1
    /\ isReady = TRUE
    /\ resources = TRUE
    /\ options = [grid |-> FALSE, invisibleBlocks |-> FALSE]
    /\ webgl = TRUE
    /\ InitStore

\* A mouse drag between Origin and Near, wheel steps away from the structure, and
\* a pinch that starts 1570 px wide and doubles.
PairInput ==
    \/ MouseDown(Origin[1], Origin[2], 0)
    \/ \E p \in {Origin, Near} : MouseMove(p[1], p[2])
    \/ Wheel(300)
    \/ TouchStart(<<Origin, Near>>)
    \/ TouchMove(<<Origin, Far>>)

NextPair ==
    \/ PairInput /\ CamOnly
    \/ \E c \in {1, 2} : FrameOf(c) /\ CamOnly

SpecPair == InitPair /\ [][NextPair]_vars

\* The component without pointer input.  The browser runs every animation-frame
\* callback that is queued; whether the container is resized, a prop changes or
\* the component is unmounted is up to the page.
NextLife ==
    \/ Mount /\ UNCHANGED <<storeVars, fingers>>
    \/ \E s \in ContainerSizes : Resize(s[1], s[2]) /\ UNCHANGED <<storeVars, fingers>>
    \/ Unmount /\ UNCHANGED <<storeVars, fingers>>
    \/ \E name \in {"grid", "invisibleBlocks"} : ToggleOption(name) /\ UNCHANGED <<storeVars, fingers>>
    \/ \E size \in Sizes : SwapStructure(size) /\ UNCHANGED <<storeVars, fingers>>
    \/ ResourcesReady /\ UNCHANGED <<storeVars, fingers>>
    \/ BeginFrame /\ UNCHANGED viewVars /\ UNCHANGED <<storeVars, fingers>>
    \/ RunRender /\ UNCHANGED viewVars /\ UNCHANGED <<storeVars, fingers>>
    \/ RunRedraw /\ UNCHANGED <<storeVars, fingers>>

SpecLife ==
    /\ InitView
    /\ [][NextLife]_vars
    /\ WF_vars(BeginFrame /\ UNCHANGED viewVars /\ UNCHANGED <<storeVars, fingers>>)
    /\ WF_vars(RunRender /\ UNCHANGED viewVars /\ UNCHANGED <<storeVars, fingers>>)
    /\ WF_vars(RunRedraw /\ UNCHANGED <<storeVars, fingers>>)

\* The user store under any calls of set and any order of the answers.
NextStore ==
    \/ \E id \in SetArgs : Set(id) /\ UNCHANGED camVars /\ UNCHANGED viewVars
    \/ \E k \in 1..Len(calls), name \in Names :
          GetUserNameResolves(k, name) /\ UNCHANGED camVars /\ UNCHANGED viewVars
    \/ \E k \in 1..Len(calls) : GetUserResolves(k) /\ UNCHANGED camVars /\ UNCHANGED viewVars
    \/ \E k \in 1..Len(calls) : RequestFails(k) /\ UNCHANGED camVars /\ UNCHANGED viewVars

\* The store of an application whose viewport is not mounted.
InitStoreAlone ==
    /\ InitView
    /\ ~isReady
    /\ ~webgl
    /\ structure = <<0, 0, 0>>

SpecStore == InitStoreAlone /\ [][NextStore]_vars

----------------------------------------------------------------------------
(* Properties. *)

MoveOps == {"mousemove", "touchmove"}
InputOps == {"mousedown", "mousemove", "mouseup", "wheel",
             "touchstart", "touchmove", "touchend"}

\* the render callbacks of instance c waiting in a queue
Waiting(queue, c) == Len(SelectSeq(queue, LAMBDA cb : cb.f = "render" /\ cb.c = c))

\* a <= b on numbers, false when either is NaN
NumLe(a, b) == ~IsNaN(a) /\ ~IsNaN(b) /\ ~NumLt(b, a)

\* C1: whenever a render callback runs, the xRot it builds the view matrix from
\* lies in [-PI/2, PI/2], and the yRot it uses differs from the yaw accumulated
\* before it by a multiple of 2*PI and is smaller than 2*PI in magnitude.
C1_RenderedRotation ==
    [][last'.op = "render" =>
          LET c == last'.c
          IN  /\ ctl'[c].xRot >= -(PI \div 2)
              /\ ctl'[c].xRot <= PI \div 2
              /\ Abs(ctl'[c].yRot) < 2 * PI
              /\ (ctl'[c].yRot - ctl[c].yRot) % (2 * PI) = 0]_vars

\* C1 witness: a render after a drag from Near back to Origin, which took the
\* yaw below -2*PI and the pitch below -PI/2.
C1_Witness ==
    /\ last.op = "render"
    /\ ctl[1].yRot = 50 - 942 + 2 * PI
    /\ ctl[1].xRot = -(PI \div 2)

\* C2: at every render, 1 <= viewDist <= maxViewDist, where maxViewDist is the
\* square of the diagonal of the bounding box the instance was built for.
C2_RenderedDistance ==
    last.op = "render" =>
        LET self == ctl[last.c]
            size == self.size
        IN  /\ self.maxViewDist
                 = Whole(size[1] * size[1] + size[2] * size[2] + size[3] * size[3])
            /\ NumLe(Whole(1), self.viewDist)
            /\ NumLe(self.viewDist, self.maxViewDist)

\* C3 as claimed: the drag anchor is set, outside a move, only by a mousedown of
\* button 0 or a touchstart of one finger; a mouse move or a one-finger touch move
\* during a drag adds the displacement from the anchor to (yRot, xRot), moves the
\* anchor and schedules a render; without a drag it changes nothing.
DragBegins(e, anchor) ==
    \/ e.op = "mousedown" /\ e.a[3] = 0 /\ anchor = <<e.a[1], e.a[2]>>
    \/ e.op = "touchstart" /\ Len(e.a) = 2 /\ anchor = e.a

DragMoves(e, self, next, queue, next_queue) ==
    (e.op = "mousemove" \/ (e.op = "touchmove" /\ Len(e.a) = 2)) =>
        IF self.dragPos # Null
        THEN /\ next.yRot = self.yRot + (e.a[1] - self.dragPos[1])
             /\ next.xRot = self.xRot + (e.a[2] - self.dragPos[2])
             /\ next.dragPos = <<e.a[1], e.a[2]>>
             /\ next_queue = Append(queue, RenderCallback(1))
        ELSE next = self /\ next_queue = queue

C3_DragAsClaimed ==
    [][/\ (/\ last'.op \notin MoveOps
           /\ ctl'[1].dragPos # Null
           /\ ctl'[1].dragPos # ctl[1].dragPos) => DragBegins(last', ctl'[1].dragPos)
       /\ DragMoves(last', ctl[1], ctl'[1], raf, raf')]_vars

\* C3 as amended: the anchor is also set by a touchend that leaves one finger.
C3_Drag ==
    [][/\ (/\ last'.op \notin MoveOps
           /\ ctl'[1].dragPos # Null
           /\ ctl'[1].dragPos # ctl[1].dragPos) =>
              \/ DragBegins(last', ctl'[1].dragPos)
              \/ last'.op = "touchend" /\ Len(last'.a) = 2
                    /\ ctl'[1].dragPos = last'.a
       /\ DragMoves(last', ctl[1], ctl'[1], raf, raf')]_vars

\* C3 witness: two moves of one drag with no frame between them, Origin to Near
\* to (314, 0), have added the total displacement (314, 0).
C3_Witness ==
    /\ last.op = "mousemove"
    /\ Len(raf) = 2
    /\ ctl[1].dragPos = <<314, 0>>
    /\ ctl[1].yRot = 50 + 314
    /\ ctl[1].xRot = 50

\* C4: a two-finger touchstart captures viewDist and the finger separation; a
\* two-finger touchmove of a pinch that started with the fingers apart sets
\* viewDist to the captured distance divided by (current / starting separation),
\* leaves what was captured alone and schedules a render; a pinch that started
\* with separation 0 changes nothing.
SeparationOf(a) == Hypot(a[3] - a[1], a[4] - a[2])

C4_Pinch ==
    [][LET e == last'
           self == ctl[1]
           next == ctl'[1]
       IN  /\ (e.op = "touchstart" /\ Len(e.a) = 4) =>
                 /\ next.pinchStartViewDist = <<self.viewDist>>
                 /\ next.pinchStartDist = <<SeparationOf(e.a)>>
           /\ (e.op = "touchmove" /\ Len(e.a) = 4) =>
                 IF /\ self.pinchStartDist # Null
                    /\ self.pinchStartDist # <<0>>
                    /\ self.pinchStartViewDist # Null
                 THEN LET start == self.pinchStartDist[1]
                          initial == self.pinchStartViewDist[1]
                          current == SeparationOf(e.a)
                      IN  /\ next.pinchStartDist = self.pinchStartDist
                          /\ next.pinchStartViewDist = self.pinchStartViewDist
                          /\ raf' = Append(raf, RenderCallback(1))
                          /\ (IsFinite(initial) /\ current > 0) =>
                                /\ IsFinite(next.viewDist)
                                /\ next.viewDist.n * current * initial.d
                                     = initial.n * start * next.viewDist.d
                          /\ current = 0 => ~IsFinite(next.viewDist)
                 ELSE next = self /\ raf' = raf]_vars

\* C4 witness: a pinch captured at distance 3 with the fingers 1570 px apart has
\* been widened to 3140 px, and viewDist is 3/2.
C4_Witness ==
    /\ last.op = "touchmove"
    /\ last.a = Origin \o Far
    /\ ctl[1].pinchStartDist = <<1570>>
    /\ ctl[1].pinchStartViewDist = <<Whole(3)>>
    /\ ctl[1].viewDist = Fin(3, 2)

\* C5: when set returns from a call without an identifier (undefined or ""),
\* flag is false and user is null.
C5_SetNothing ==
    (last.op = "set" /\ last.a = <<"">>) => (flag = FALSE /\ user = Null)

InFlight == {k \in 1..Len(calls) : calls[k].pc \in {"getUserName", "getUser"}}

\* C5 witness: set() has returned while one earlier call was in flight and
\* another had completed.
C5_Witness ==
    /\ last.op = "set" /\ last.a = <<"">>
    /\ InFlight # {}
    /\ \E k \in 1..Len(calls) : calls[k].pc = "done"

\* C6 as claimed: a call set(id) sets flag and asks getUserName for the id; when
\* that answers it asks getUser for the name answered; when that answers it
\* assigns the user answered; a call goes through these steps in this order, and
\* user keeps its value for as long as a call waits for an answer.
StepsInOrder(before, after) ==
    \/ before = after
    \/ before = "getUserName" /\ after \in {"getUser", "failed"}
    \/ before = "getUser" /\ after \in {"done", "failed"}

SetSteps ==
    LET e == last'
    IN  /\ (e.op = "set" /\ e.a # <<"">>) =>
              /\ flag'
              /\ user' = user
              /\ Len(calls') = Len(calls) + 1
              /\ calls'[e.c].pc = "getUserName"
              /\ calls'[e.c].req = e.a[1]
        /\ e.op = "getUserName.resolve" =>
              /\ calls[e.c].pc = "getUserName"
              /\ calls'[e.c].pc = "getUser"
              /\ calls'[e.c].req = e.a[1]
              /\ user' = user
        /\ e.op = "getUser.resolve" =>
              /\ calls[e.c].pc = "getUser"
              /\ calls'[e.c].pc = "done"
              /\ user' = e.a
        /\ \A k \in 1..Len(calls) : StepsInOrder(calls[k].pc, calls'[k].pc)

C6_SetSequenceAsClaimed ==
    [][/\ SetSteps
       /\ (\E k \in InFlight : calls'[k].pc \in {"getUserName", "getUser"}) =>
              user' = user]_vars

\* C6 as amended: user keeps its value through every step of a call before its
\* assignment; between them it changes only by the assignment of another call
\* or by a call of set without an identifier.
C6_SetSequence ==
    [][/\ SetSteps
       /\ user' # user =>
              \/ last'.op = "getUser.resolve"
              \/ last'.op = "set" /\ last'.a = <<"">>]_vars

\* C6 witness: a call for "a" was answered the name alex, then alex's user, which
\* it has just assigned.
C6_Witness ==
    /\ last.op = "getUser.resolve"
    /\ calls[last.c].id = "a"
    /\ calls[last.c].name = "alex"
    /\ calls[last.c].pc = "done"
    /\ user = <<"alex">>

\* C7: flag is true whenever a lookup is in flight, and whenever user is not null.
C7_FlagCoversLookups ==
    /\ InFlight # {} => flag
    /\ user # Null => flag

\* C8: the answer of getUser is assigned to user whichever call it belongs to,
\* the newest or a superseded one.
C8_AnyCallAssigns ==
    last.op = "getUser.resolve" => user = calls[last.c].user

\* C8 witness: set("a"), then set("b") while the first was in flight; both have
\* completed, the first one last, and user is the first call's record, which is
\* not the second's.
C8_Witness ==
    /\ Len(calls) = 2
    /\ calls[1].id = "a" /\ calls[2].id = "b"
    /\ calls[1].pc = "done" /\ calls[2].pc = "done"
    /\ last.op = "getUser.resolve" /\ last.c = 1
    /\ user = calls[1].user
    /\ calls[1].user # calls[2].user

\* C9: an instance has its seven listeners attached or none; destroy leaves it
\* with none, nothing attaches one
\* again, and then no mouse, wheel or touch event changes the instance or
\* schedules a render of it; a second destroy changes nothing.
C9_Destroyed ==
    [][\A c \in 1..Len(ctl) :
          /\ Cardinality(ctl[c].listeners) \in {0, 7}
          /\ (last'.op = "destroy" /\ last'.c = c) => ctl'[c].listeners = {}
          /\ ctl[c].listeners = {} =>
                /\ ctl'[c].listeners = {}
                /\ last'.op \in InputOps \cup {"destroy"} =>
                      /\ ctl'[c] = ctl[c]
                      /\ Waiting(raf', c) = Waiting(raf, c)]_vars

\* C9 witness: the mouse has moved after an instance was destroyed in the middle
\* of a drag.
C9_Witness ==
    /\ last.op = "mousemove"
    /\ ctl[1].listeners = {}
    /\ ctl[1].dragPos = Origin

\* C10: at most one instance has listeners attached, it is the one the component
\* refers to, and the component refers to the renderer built last, the only one
\* a render draws with.
Attached == {c \in 1..Len(ctl) : ctl[c].listeners # {}}

C10_OneControllerOneRenderer ==
    /\ Cardinality(Attached) <= 1
    /\ Attached \subseteq {interactiveCanvas}
    /\ renderer = Len(renderers)
    /\ drawn.c # 0 => drawn.renderer = renderer

\* C10 witness: a second instance has replaced the first, which still has a
\* render waiting.
C10_Witness ==
    /\ Len(ctl) = 2
    /\ interactiveCanvas = 2
    /\ Attached = {2}
    /\ Waiting(raf, 1) > 0

\* C11: a toggle of options.grid or options.invisibleBlocks queues one render of
\* the instance the component refers to and leaves the renderer, that reference
\* and every instance alone; a render draws the grid iff options.grid and the
\* invisible blocks iff options.invisibleBlocks.
C11_ToggleRedraws ==
    [][/\ last'.op = "options" =>
             /\ renderer' = renderer
             /\ renderers' = renderers
             /\ interactiveCanvas' = interactiveCanvas
             /\ ctl' = ctl
             /\ interactiveCanvas # 0 =>
                   raf' = Append(raf, RenderCallback(interactiveCanvas))
       /\ last'.op = "render" =>
             /\ drawn'.grid = options'.grid
             /\ drawn'.invisibleBlocks = options'.invisibleBlocks]_vars

\* the guards of the component's redraw (lines 170-173) pass
RedrawProceeds == isReady /\ resources /\ canvas.el = "element" /\ webgl

\* the camera state of an instance
Camera(self) ==
    <<self.xRot, self.yRot, self.viewDist, self.dragPos,
      self.pinchStartDist, self.pinchStartViewDist>>

\* a resize sets the backing store of the canvas to the client size of the
\* container and queues the component's redraw, and changes nothing else
ResizeStep ==
    last'.op = "resize" =>
        /\ <<canvas'.w, canvas'.h>> = <<container'.w, container'.h>>
        /\ raf' = Append(raf, RedrawCallback)
        /\ renderer' = renderer
        /\ renderers' = renderers
        /\ interactiveCanvas' = interactiveCanvas
        /\ ctl' = ctl

RendersCurrent ==
    /\ renderer # 0
    /\ renderers[renderer] = structure
    /\ interactiveCanvas # 0
    /\ ctl[interactiveCanvas].size = structure

C13_SwapRebuilds ==
    (last.op \in {"structure", "resources"} /\ RedrawProceeds)
        ~> (RendersCurrent \/ container.el = "null")

\* C14: the callbacks an animation frame starts with hold at most one render of
\* an instance, and an input event that changes xRot, yRot or viewDist of an
\* instance leaves a render of it waiting for the next frame.
Orbit(self) == <<self.xRot, self.yRot, self.viewDist>>

C14_OnePaintPerFrame ==
    [][\A c \in 1..Len(ctl) :
          /\ last'.op = "frame" => Waiting(raf', c) <= 1
          /\ (last'.op \in InputOps /\ Orbit(ctl'[c]) # Orbit(ctl[c])) =>
                Waiting(raf', c) >= 1]_vars

\* C15: once the unmount hook has run, the resize observer observes nothing and
\* no instance has a listener attached, whatever runs afterwards.
C15_CleanAfterUnmount ==
    container.el = "null" => (~observing /\ Attached = {})

\* C15 witness: the redraw queued by a resize before the unmount has run after
\* it, with an instance built before.
C15_Witness ==
    /\ container.el = "null"
    /\ last.op = "viewport.redraw"
    /\ interactiveCanvas # 0
    /\ Len(ctl) = 1

\* C16: when the component's redraw runs and one of its guards fails, it leaves
\* the renderer, every instance and the component's references as they were
\* and queues nothing.
C16_RedrawReturnsEarly ==
    [][(last'.op = "viewport.redraw" /\ ~RedrawProceeds) =>
          /\ ctl' = ctl
          /\ renderer' = renderer
          /\ renderers' = renderers
          /\ interactiveCanvas' = interactiveCanvas
          /\ raf' = Tail(raf)]_vars

\* C16 witness: the redraw has returned early after the unmount, when a renderer
\* and an instance existed and a render of the instance was waiting.
C16_Witness ==
    /\ last.op = "viewport.redraw"
    /\ canvas.el = "null"
    /\ renderer = 1
    /\ interactiveCanvas = 1
    /\ raf = <<RenderCallback(1)>>

\* C17: when getUserName or getUser fails in a call set(id), the call ends
\* rejected with flag true and user untouched by it; a call that failed asks for
\* nothing more, neither again nor getUser after a failed getUserName.
C17_FailureLeavesStore ==
    [][/\ last'.op = "reject" =>
             /\ calls'[last'.c].pc = "failed"
             /\ calls'[last'.c].req = ""
             /\ flag'
             /\ user' = user
       /\ \A k \in 1..Len(calls) : calls[k].pc = "failed" => calls'[k] = calls[k]]_vars

\* C18: onRender is called only by an instance that has its listeners attached:
\* once an instance is destroyed, a frame callback it had queued draws nothing.
C18_NoRenderAfterDestroy ==
    [][\A c \in 1..Len(ctl) : ctl[c].listeners = {} => drawn'.c # c]_vars

\* C19 as claimed: two runs of one instance that received the same events, with
\* frames at different points, and have no render left to run have rendered the
\* same xRot, the same yRot modulo 2*PI and the same viewDist.
C19_FramesCommuteAsClaimed ==
    raf = <<>> =>
        /\ ctl[1].xRot = ctl[2].xRot
        /\ (ctl[1].yRot - ctl[2].yRot) % (2 * PI) = 0
        /\ ctl[1].viewDist = ctl[2].viewDist

\* C19 as amended: the yaws of the two runs differ by a multiple of 2*PI at all
\* times; runs that agree on xRot, viewDist and the anchors agree on them after
\* any event, and after any frame whose clamps change neither xRot nor viewDist.
Unwrapped(self) ==
    <<self.xRot, self.viewDist, self.dragPos, self.pinchStartDist,
      self.pinchStartViewDist>>

C19_FramesCommute ==
    [][/\ (ctl'[1].yRot - ctl'[2].yRot) % (2 * PI) = 0
       /\ (/\ Unwrapped(ctl[1]) = Unwrapped(ctl[2])
           /\ last'.op = "render" =>
                 Unwrapped(ctl'[last'.c]) = Unwrapped(ctl[last'.c])) =>
             Unwrapped(ctl'[1]) = Unwrapped(ctl'[2])]_vars

\* C19 witness: a drag from Origin to Near and back, with a frame between the two
\* moves in the first run and none in the second; both runs have rendered, the
\* yaws are -5.78 and 0.5, one turn apart.
C19_Witness ==
    /\ raf = <<>>
    /\ last.op = "render"
    /\ ctl[1].yRot = 50 - 2 * PI
    /\ ctl[2].yRot = 50
    /\ ctl[1].dragPos = Origin

\* C20: under real touches with up to three fingers, a touchmove of a single
\* finger adds to (yRot, xRot) the displacement of that finger since the event
\* before, moves the anchor to it and queues a render; a touchend that leaves one
\* finger clears the pinch anchors and puts the drag anchor at that finger; a
\* touchend that leaves none clears the three anchors, and while no finger is
\* down no touchmove would change the instance.
C20_SingleFinger ==
    [][LET e == last'
           self == ctl[1]
           next == ctl'[1]
       IN  /\ (e.op = "touchmove" /\ Len(fingers') = 1) =>
                 /\ next.yRot = self.yRot + (fingers'[1][1] - fingers[1][1])
                 /\ next.xRot = self.xRot + (fingers'[1][2] - fingers[1][2])
                 /\ next.dragPos = fingers'[1]
                 /\ raf' = Append(raf, RenderCallback(1))
           /\ (e.op = "touchend" /\ Len(fingers') = 1) =>
                 /\ next.pinchStartDist = Null
                 /\ next.pinchStartViewDist = Null
                 /\ next.dragPos = fingers'[1]
           /\ fingers' = <<>> =>
                 /\ next.dragPos = Null
                 /\ next.pinchStartDist = Null
                 /\ next.pinchStartViewDist = Null
                 /\ \A touches \in FingerLists :
                       handleTouchMove(next, [touches |-> touches]) = Quiet(next)]_vars

\* C20 witness: a pinch between Origin and Near was closed to nothing (viewDist
\* is Infinity until the next frame), the first finger was lifted, and the finger
\* left at Near has moved to Origin: the rotation changed by (-9.42, -12.56).
C20_Witness ==
    /\ last.op = "touchmove"
    /\ fingers = <<Origin>>
    /\ ctl[1].dragPos = Origin
    /\ ctl[1].yRot = 50 - 942
    /\ ctl[1].xRot = 50 - 1256
    /\ ctl[1].viewDist = [n |-> 1, d |-> 0]

====
